---- MODULE Spec2Model ----
(***************************************************************************)
(* State-machine model of js/main.js: the DOMContentLoaded handler and the *)
(* event handlers, timer and animation-frame callbacks it registers.       *)
(* The browser's event loop serialises handler invocations, so every       *)
(* action below is one whole handler invocation.                           *)
(***************************************************************************)
EXTENDS Integers, Sequences, FiniteSets, TLC

(***************************************************************************)
(* Bounds of the model.                                                    *)
(***************************************************************************)
\* requestAnimationFrame hands out the ids 1..MaxRaf: at most MaxRaf scroll
\* events are delivered in one behaviour.
MaxRaf == 2

(***************************************************************************)
(* The page the script is loaded into.                                     *)
(***************************************************************************)
\* What the script looks up by id, and the feature it tests for.
Lookups == {"nav-toggle", "nav-menu", "typed-name", "navbar", "IntersectionObserver"}

\* The pages the script is loaded into, each named by what it lacks: the
\* page that has everything, and the pages that lack one thing.
Pages == {{}} \cup {{x} : x \in Lookups}

\* The clickable elements in document order.  An href is the sequence
\* <<"#", id>> for "#id", <<"#">> for "#"; navLink is the class 'nav-link'.
anchors ==
    << [navLink |-> FALSE, href |-> <<"#">>],
       [navLink |-> TRUE,  href |-> <<"#", "home">>],
       [navLink |-> TRUE,  href |-> <<"#", "about">>],
       [navLink |-> FALSE, href |-> <<"#", "nope">>] >>

\* section[id] elements in document order: home and about overlap in
\* [151, 160), skills is nested in about and has no nav link, and no section
\* holds a position from 500 on.
sections ==
    << [id |-> "home",   offsetTop |-> 0,   offsetHeight |-> 160],
       [id |-> "about",  offsetTop |-> 151, offsetHeight |-> 349],
       [id |-> "skills", offsetTop |-> 300, offsetHeight |-> 100] >>

\* The elements of class 'fade-in'.
fadeElements == {"card1", "card2"}

\* The values window.scrollY takes.
ScrollYs == {50, 51, 200, 400}

\* const nameToType = 'Noor Elahi Ali Shibly'
nameToType ==
    << "N", "o", "o", "r", " ", "E", "l", "a", "h", "i", " ",
       "A", "l", "i", " ", "S", "h", "i", "b", "l", "y" >>

\* window.scrollY + 100
HeaderOffset == 100
\* window.scrollY > 50
NavbarThreshold == 50

VARIABLES
    absent,         \* the looked-up things missing from the page
    loaded,         \* the DOMContentLoaded handler has run
    toggleActive,   \* class 'active' on #nav-toggle
    menuActive,     \* class 'active' on #nav-menu
    linkActive,     \* class 'active' on each .nav-link
    visible,        \* class 'visible' on each .fade-in element
    observed,       \* the observation targets of fadeObserver
    charIndex,      \* let charIndex
    typedText,      \* what typeCharacter appended to #typed-name's text
    timers,         \* the outstanding setTimeout(typeCharacter, ...) timers
    scrollY,        \* window.scrollY
    scrollTimeout,  \* let scrollTimeout (0: undefined)
    rafPending,     \* ids of the pending requestAnimationFrame callbacks
    navbarBg,       \* navbar.style.backgroundColor ("unset": never written)
    navbarRuns,     \* runs of handleNavbarScroll since the last frame
    last            \* the last handler invocation and what it did

vars == << absent, loaded, toggleActive, menuActive, linkActive, visible,
           observed, charIndex, typedText, timers, scrollY,
           scrollTimeout, rafPending, navbarBg, navbarRuns, last >>

(***************************************************************************)
(* Element lookups.                                                        *)
(***************************************************************************)
\* A setTimeout(typeCharacter, ...) is outstanding.
timerPending == timers > 0

\* document.getElementById(id) is not null.
Present(id) == id \notin absent

\* The indices of document.querySelectorAll('.nav-link').
navLinksForHighlight == {i \in 1..Len(anchors) : anchors[i].navLink}

\* The indices of document.querySelectorAll('a[href^="#"]').
smoothScrollLinks == {i \in 1..Len(anchors) : anchors[i].href[1] = "#"}

\* The ids an id selector can find on the page.
ElementIds ==
    {sections[i].id : i \in 1..Len(sections)}
        \cup {id \in Lookups \ {"IntersectionObserver"} : Present(id)}

\* if (navToggle && navMenu)
MenuGuard == Present("nav-toggle") /\ Present("nav-menu")

\* document.querySelector(`.nav-link[href="#${sectionId}"]`): the first match
\* in document order, 0 for null.
QueryNavLink(sectionId) ==
    LET found == {i \in navLinksForHighlight : anchors[i].href = <<"#", sectionId>>}
    IN  IF found = {} THEN 0 ELSE CHOOSE i \in found : \A j \in found : i <= j

\* What a handler invocation records in last.
Did(op, anchor, prevented, target, threw, ran) ==
    [op |-> op, anchor |-> anchor, prevented |-> prevented,
     scrolledTo |-> target, threw |-> threw, ran |-> ran]

(***************************************************************************)
(* 5. Active nav link highlighting.                                        *)
(***************************************************************************)
\* scrollPosition >= sectionTop && scrollPosition < sectionTop + sectionHeight
InSection(section, scrollPosition) ==
    /\ scrollPosition >= section.offsetTop
    /\ scrollPosition < section.offsetTop + section.offsetHeight

\* The forEach body without the loop that removes 'active' from all links.
highlightSectionNoRemove(section, active, scrollPosition) ==
    IF InSection(section, scrollPosition)
    THEN LET activeLink == QueryNavLink(section.id)
         IN  IF activeLink # 0
             THEN [active EXCEPT ![activeLink] = TRUE]
             ELSE active
    ELSE active

\* The forEach body with the removal loop before the section test.
highlightSectionRemoveFirst(section, active, scrollPosition) ==
    LET cleared == [l \in DOMAIN active |-> FALSE]
        activeLink == QueryNavLink(section.id)
    IN  IF InSection(section, scrollPosition) /\ activeLink # 0
        THEN [cleared EXCEPT ![activeLink] = TRUE]
        ELSE cleared

\* The body of sections.forEach for one section.
highlightSection(section, active, scrollPosition) ==
    IF InSection(section, scrollPosition)
    THEN LET cleared == [l \in DOMAIN active |-> FALSE]
             activeLink == QueryNavLink(section.id)
         IN  IF activeLink # 0
             THEN [cleared EXCEPT ![activeLink] = TRUE]
             ELSE cleared
    ELSE active

RECURSIVE highlightFrom(_, _, _)
highlightFrom(i, active, scrollPosition) ==
    IF i > Len(sections)
    THEN active
    ELSE highlightFrom(i + 1,
                       highlightSection(sections[i], active, scrollPosition),
                       scrollPosition)

\* function highlightNavLink(), as a function of the classes and scrollY.
highlightNavLink(active, y) == highlightFrom(1, active, y + HeaderOffset)

\* n runs of highlightNavLink in one frame.
RECURSIVE RunCallbacks(_, _, _)
RunCallbacks(n, active, y) ==
    IF n = 0 THEN active ELSE RunCallbacks(n - 1, highlightNavLink(active, y), y)

(***************************************************************************)
(* The page before DOMContentLoaded.                                       *)
(***************************************************************************)
Init ==
    /\ absent \in Pages
    /\ loaded = FALSE
    /\ toggleActive \in BOOLEAN
    /\ menuActive \in BOOLEAN
    /\ (~Present("nav-toggle") => ~toggleActive)
    /\ (~Present("nav-menu") => ~menuActive)
    /\ linkActive \in [navLinksForHighlight -> BOOLEAN]
    /\ visible = [e \in fadeElements |-> FALSE]
    /\ observed = {}
    /\ charIndex = 0
    /\ typedText = << >>
    /\ timers = 0
    /\ scrollY \in ScrollYs
    /\ scrollTimeout = 0
    /\ rafPending = {}
    /\ navbarBg = "unset"
    /\ navbarRuns = 0
    /\ last = Did("none", 0, FALSE, "", FALSE, 0)

\* The load handler without the else branch of the IntersectionObserver test.
LoadNoFallback ==
    /\ ~loaded
    /\ loaded' = TRUE
    /\ observed' = IF Present("IntersectionObserver") THEN fadeElements ELSE {}
    /\ visible' = visible
    /\ timers' = timers + 1
    /\ linkActive' = highlightNavLink(linkActive, scrollY)
    /\ last' = Did("load", 0, FALSE, "", FALSE, 1)
    /\ UNCHANGED << absent, toggleActive, menuActive, charIndex, typedText,
                    scrollY, scrollTimeout, rafPending, navbarBg, navbarRuns >>

(***************************************************************************)
(* document.addEventListener('DOMContentLoaded', ...)                      *)
(***************************************************************************)
Load ==
    /\ ~loaded
    /\ loaded' = TRUE
    /\ observed' = IF Present("IntersectionObserver") THEN fadeElements ELSE {}
    /\ visible' = IF Present("IntersectionObserver")
                  THEN visible
                  ELSE [e \in fadeElements |-> TRUE]
    /\ timers' = timers + 1
    /\ linkActive' = highlightNavLink(linkActive, scrollY)
    /\ last' = Did("load", 0, FALSE, "", FALSE, 1)
    /\ UNCHANGED << absent, toggleActive, menuActive, charIndex, typedText,
                    scrollY, scrollTimeout, rafPending, navbarBg, navbarRuns >>

(***************************************************************************)
(* 1. Mobile navigation toggle.                                            *)
(***************************************************************************)
\* The toggle's listener with classList.add in place of classList.toggle.
ToggleClickAdd ==
    /\ loaded
    /\ MenuGuard
    /\ toggleActive' = TRUE
    /\ menuActive' = TRUE
    /\ last' = Did("toggle", 0, FALSE, "", FALSE, 0)
    /\ UNCHANGED << absent, loaded, linkActive, visible, observed, charIndex,
                    typedText, timers, scrollY, scrollTimeout,
                    rafPending, navbarBg, navbarRuns >>

\* The toggle's listener without navMenu.classList.toggle('active').
ToggleClickButtonOnly ==
    /\ loaded
    /\ MenuGuard
    /\ toggleActive' = ~toggleActive
    /\ last' = Did("toggle", 0, FALSE, "", FALSE, 0)
    /\ UNCHANGED << absent, loaded, menuActive, linkActive, visible, observed,
                    charIndex, typedText, timers, scrollY, scrollTimeout,
                    rafPending, navbarBg, navbarRuns >>

\* navToggle's click listener: classList.toggle('active') on both elements.
ToggleClick ==
    /\ loaded
    /\ MenuGuard
    /\ toggleActive' = ~toggleActive
    /\ menuActive' = ~menuActive
    /\ last' = Did("toggle", 0, FALSE, "", FALSE, 0)
    /\ UNCHANGED << absent, loaded, linkActive, visible, observed, charIndex,
                    typedText, timers, scrollY, scrollTimeout,
                    rafPending, navbarBg, navbarRuns >>

\* A nav link's click listener is registered inside if (navToggle && navMenu).
HasMenuListener(a) == anchors[a].navLink /\ MenuGuard

\* The nav link's listener with classList.toggle in place of classList.remove.
CloseMenuToggles(a, active) == IF HasMenuListener(a) THEN ~active ELSE active

\* The nav link's listener: classList.remove('active'), on an element that
\* has the listener; the class stays as it is on one that has not.
CloseMenu(a, active) == IF HasMenuListener(a) THEN FALSE ELSE active

(***************************************************************************)
(* 2. Smooth scroll for anchor links.                                      *)
(***************************************************************************)
\* The click listener without its if (href !== '#') test.
SmoothScrollAlways(href) ==
    [prevented |-> TRUE,
     scrolledTo |-> IF Len(href) > 1 /\ href[2] \in ElementIds
                    THEN href[2]
                    ELSE ""]

\* The click listener of an a[href^="#"]: whether it called
\* e.preventDefault(), and the id of the element it called scrollIntoView
\* on ("" when it called it on none).
SmoothScroll(href) ==
    IF href # <<"#">>
    THEN [prevented |-> TRUE,
          scrolledTo |-> IF href[2] \in ElementIds THEN href[2] ELSE ""]
    ELSE [prevented |-> FALSE, scrolledTo |-> ""]

\* A click whose nav-link listener also marks the clicked link active.
AnchorClickMarksActive(a) ==
    /\ loaded
    /\ HasMenuListener(a) \/ a \in smoothScrollLinks
    /\ toggleActive' = CloseMenu(a, toggleActive)
    /\ menuActive' = CloseMenu(a, menuActive)
    /\ linkActive' = IF HasMenuListener(a)
                     THEN [l \in navLinksForHighlight |-> l = a]
                     ELSE linkActive
    /\ LET r == IF a \in smoothScrollLinks
                THEN SmoothScroll(anchors[a].href)
                ELSE [prevented |-> FALSE, scrolledTo |-> ""]
       IN  last' = Did("click", a, r.prevented, r.scrolledTo, FALSE, 0)
    /\ UNCHANGED << absent, loaded, visible, observed, charIndex,
                    typedText, timers, scrollY, scrollTimeout,
                    rafPending, navbarBg, navbarRuns >>

\* A click on anchor a: the listeners registered on it, in the order of
\* their registration.
AnchorClick(a) ==
    /\ loaded
    /\ HasMenuListener(a) \/ a \in smoothScrollLinks
    /\ toggleActive' = CloseMenu(a, toggleActive)
    /\ menuActive' = CloseMenu(a, menuActive)
    /\ LET r == IF a \in smoothScrollLinks
                THEN SmoothScroll(anchors[a].href)
                ELSE [prevented |-> FALSE, scrolledTo |-> ""]
       IN  last' = Did("click", a, r.prevented, r.scrolledTo, FALSE, 0)
    /\ UNCHANGED << absent, loaded, linkActive, visible, observed, charIndex,
                    typedText, timers, scrollY, scrollTimeout,
                    rafPending, navbarBg, navbarRuns >>

(***************************************************************************)
(* 3. Fade-in animations on scroll.                                        *)
(***************************************************************************)
\* The targets of the entries with entry.isIntersecting.
Intersecting(entries) == {e \in DOMAIN entries : entries[e]}

\* The callback without its if (entry.isIntersecting) test.
fadeVisibleAll(entries, vis) ==
    [e \in DOMAIN vis |-> vis[e] \/ e \in DOMAIN entries]

\* entry.target.classList.add('visible') over the entries.
fadeVisible(entries, vis) ==
    [e \in DOMAIN vis |-> vis[e] \/ e \in Intersecting(entries)]

\* observer.unobserve(entry.target) over the entries.
fadeObserved(entries, obs) == obs \ Intersecting(entries)

\* The observer reports a change of some of its targets: one entry for each.
ObserverCallback(entries) ==
    /\ loaded
    /\ DOMAIN entries # {}
    /\ DOMAIN entries \subseteq observed
    /\ visible' = fadeVisible(entries, visible)
    /\ observed' = fadeObserved(entries, observed)
    /\ last' = Did("observer", 0, FALSE, "", FALSE, 0)
    /\ UNCHANGED << absent, loaded, toggleActive, menuActive, linkActive,
                    charIndex, typedText, timers, scrollY,
                    scrollTimeout, rafPending, navbarBg, navbarRuns >>

(***************************************************************************)
(* 4. Typing effect for hero name.                                         *)
(***************************************************************************)
\* typeCharacter with charAt(0) in place of charAt(charIndex).
typeCharacterFirstChar(index, text) ==
    IF Present("typed-name") /\ index < Len(nameToType)
    THEN [charIndex |-> index + 1,
          typedText |-> Append(text, nameToType[1]),
          scheduled |-> TRUE]
    ELSE [charIndex |-> index, typedText |-> text, scheduled |-> FALSE]

\* typeCharacter without its setTimeout call.
typeCharacterOnce(index, text) ==
    IF Present("typed-name") /\ index < Len(nameToType)
    THEN [charIndex |-> index + 1,
          typedText |-> Append(text, nameToType[index + 1]),
          scheduled |-> FALSE]
    ELSE [charIndex |-> index, typedText |-> text, scheduled |-> FALSE]

\* typeCharacter with its setTimeout call after the if block.
typeCharacterAlwaysSchedules(index, text) ==
    IF Present("typed-name") /\ index < Len(nameToType)
    THEN [charIndex |-> index + 1,
          typedText |-> Append(text, nameToType[index + 1]),
          scheduled |-> TRUE]
    ELSE [charIndex |-> index, typedText |-> text, scheduled |-> TRUE]

\* function typeCharacter(): the counter, the appended text and whether it
\* called setTimeout(typeCharacter, delay).
typeCharacter(index, text) ==
    IF Present("typed-name") /\ index < Len(nameToType)
    THEN [charIndex |-> index + 1,
          typedText |-> Append(text, nameToType[index + 1]),
          scheduled |-> TRUE]
    ELSE [charIndex |-> index, typedText |-> text, scheduled |-> FALSE]

\* An outstanding timer fires.
TimerFire ==
    /\ timers > 0
    /\ LET r == typeCharacter(charIndex, typedText)
       IN  /\ charIndex' = r.charIndex
           /\ typedText' = r.typedText
           /\ timers' = (timers - 1) + (IF r.scheduled THEN 1 ELSE 0)
    /\ last' = Did("timer", 0, FALSE, "", FALSE, 0)
    /\ UNCHANGED << absent, loaded, toggleActive, menuActive, linkActive,
                    visible, observed, scrollY, scrollTimeout, rafPending,
                    navbarBg, navbarRuns >>

(***************************************************************************)
(* 5. and 6. The scroll listeners and the animation frame.                 *)
(***************************************************************************)
\* The scroll listener without its cancelAnimationFrame call.
cancelNothing(timeout, pending) == pending

\* if (scrollTimeout) window.cancelAnimationFrame(scrollTimeout);
cancelAnimationFrame(timeout, pending) ==
    IF timeout # 0 THEN pending \ {timeout} ELSE pending

\* window.requestAnimationFrame: the next id; this script is the only caller,
\* so the last id handed out is the one scrollTimeout holds.
requestAnimationFrame(timeout) == timeout + 1

\* handleNavbarScroll with >= in place of >.
handleNavbarScrollAtLeast(y) ==
    IF y >= NavbarThreshold
    THEN "rgba(13, 13, 13, 0.98)"
    ELSE "rgba(13, 13, 13, 0.95)"

\* function handleNavbarScroll(), when navbar is an element.
handleNavbarScroll(y) ==
    IF y > NavbarThreshold
    THEN "rgba(13, 13, 13, 0.98)"
    ELSE "rgba(13, 13, 13, 0.95)"

\* A scroll event to position y: the throttling listener, then
\* handleNavbarScroll, which throws when navbar is null.
Scroll(y) ==
    /\ loaded
    /\ scrollTimeout < MaxRaf
    /\ scrollY' = y
    /\ scrollTimeout' = requestAnimationFrame(scrollTimeout)
    /\ rafPending' = cancelAnimationFrame(scrollTimeout, rafPending)
                        \cup {requestAnimationFrame(scrollTimeout)}
    /\ navbarRuns' = navbarRuns + 1
    /\ navbarBg' = IF Present("navbar") THEN handleNavbarScroll(y) ELSE navbarBg
    /\ last' = Did("scroll", 0, FALSE, "", ~Present("navbar"), 0)
    /\ UNCHANGED << absent, loaded, toggleActive, menuActive, linkActive,
                    visible, observed, charIndex, typedText, timers >>

\* An animation frame: the browser runs the pending callbacks.
Frame ==
    /\ loaded
    /\ linkActive' = RunCallbacks(Cardinality(rafPending), linkActive, scrollY)
    /\ rafPending' = {}
    /\ navbarRuns' = 0
    /\ last' = Did("frame", 0, FALSE, "", FALSE, Cardinality(rafPending))
    /\ UNCHANGED << absent, loaded, toggleActive, menuActive, visible,
                    observed, charIndex, typedText, timers, scrollY,
                    scrollTimeout, navbarBg >>

Next ==
    \/ Load
    \/ ToggleClick
    \/ \E a \in 1..Len(anchors) : AnchorClick(a)
    \/ \E t \in SUBSET fadeElements : \E entries \in [t -> BOOLEAN] :
           ObserverCallback(entries)
    \/ TimerFire
    \/ \E y \in ScrollYs \ {scrollY} : Scroll(y)
    \/ Frame

Spec == Init /\ [][Next]_vars

\* The pages with everything but, at most, the typed-name element, menu
\* closed and no link active, where every timer that was set fires.
FairInit ==
    /\ Init
    /\ absent \subseteq {"typed-name"}
    /\ ~toggleActive
    /\ ~menuActive
    /\ \A l \in navLinksForHighlight : ~linkActive[l]

FairSpec == FairInit /\ [][Next]_vars /\ WF_vars(TimerFire)

\* The pages without the typed-name element, with the navbar or without it,
\* where the browser keeps producing animation frames.
FrameFairInit ==
    /\ absent \in {{"typed-name"}, {"typed-name", "navbar"}}
    /\ loaded = FALSE
    /\ toggleActive \in BOOLEAN
    /\ menuActive \in BOOLEAN
    /\ linkActive \in [navLinksForHighlight -> BOOLEAN]
    /\ visible = [e \in fadeElements |-> FALSE]
    /\ observed = {}
    /\ charIndex = 0
    /\ typedText = << >>
    /\ timers = 0
    /\ scrollY \in ScrollYs
    /\ scrollTimeout = 0
    /\ rafPending = {}
    /\ navbarBg = "unset"
    /\ navbarRuns = 0
    /\ last = Did("none", 0, FALSE, "", FALSE, 0)

FrameFairSpec == FrameFairInit /\ [][Next]_vars /\ WF_vars(Frame)

(***************************************************************************)
(* Properties.                                                             *)
(***************************************************************************)
\* The nav links that carry the class 'active'.
ActiveLinks == {l \in navLinksForHighlight : linkActive[l]}

\* The sections that hold the offset position window.scrollY + 100.
SectionsAt(y) ==
    {i \in 1..Len(sections) : InSection(sections[i], y + HeaderOffset)}

\* The last of them in document order.
LastSectionAt(y) == CHOOSE i \in SectionsAt(y) : \A j \in SectionsAt(y) : j <= i

\* The handler invocation that led to this state ran highlightNavLink (the
\* run at load, or a run from an animation frame); scrollY is what it read.
HighlightRan == last.op \in {"load", "frame"} /\ last.ran >= 1

\* C1, as stated: after any run of highlightNavLink in which the offset
\* position lies within a section, exactly one nav link carries 'active'.
C1_ExactlyOneActive ==
    (HighlightRan /\ SectionsAt(scrollY) # {}) => Cardinality(ActiveLinks) = 1

\* C1, amended: after any run of highlightNavLink in which the offset
\* position lies within a section, at most one nav link carries 'active':
\* the nav link of the last section in document order that holds the
\* position, and no link at all when that section has no nav link.
C1_LastSectionDecides ==
    (HighlightRan /\ SectionsAt(scrollY) # {}) =>
        LET activeLink == QueryNavLink(sections[LastSectionAt(scrollY)].id)
        IN  ActiveLinks = IF activeLink # 0 THEN {activeLink} ELSE {}

\* C1's case: a run from an animation frame, at a position that two
\* sections hold, has left the second section's link the only active one.
C1_Witness ==
    /\ last.op = "frame"
    /\ last.ran = 1
    /\ Cardinality(SectionsAt(scrollY)) = 2
    /\ Cardinality(ActiveLinks) = 1
    /\ QueryNavLink(sections[LastSectionAt(scrollY)].id) \in ActiveLinks

\* C2, as stated: the nav-link highlighting and the navbar background update
\* each execute at most once per animation frame, however many scroll events
\* are delivered between two frames (here for pages that have a navbar).
C2_ScrollWorkOncePerFrame ==
    /\ last.op = "frame" => last.ran <= 1
    /\ Present("navbar") => navbarRuns <= 1

\* C2, amended: highlightNavLink executes at most once per animation frame,
\* however many scroll events are delivered between two frames: after every
\* scroll event exactly one callback is pending, and a frame runs at most
\* one.  (handleNavbarScroll is not throttled: it runs on every scroll
\* event.)
C2_HighlightOncePerFrame ==
    /\ last.op = "frame" => last.ran <= 1
    /\ last.op = "scroll" => Cardinality(rafPending) = 1

\* C2's case: two scroll events since the last frame, one callback pending.
C2_Witness ==
    /\ last.op = "scroll"
    /\ navbarRuns = 2
    /\ Cardinality(rafPending) = 1

\* C3, as stated: whichever looked-up elements are absent, no handler
\* invocation dereferences a null element or raises an error.
C3_NoHandlerThrows == ~last.threw

\* C4: when both nav-toggle and nav-menu exist, every click on the toggle
\* flips the membership of 'active' on both elements: each has the class
\* after the click exactly when it did not have it before (so a second click
\* restores what the first one changed).
C4_ToggleFlipsBoth ==
    [][last'.op = "toggle" =>
          /\ MenuGuard
          /\ toggleActive' = ~toggleActive
          /\ menuActive' = ~menuActive]_vars

\* C4's case: a toggle click has just opened the menu.
C4_Witness ==
    /\ MenuGuard
    /\ last.op = "toggle"
    /\ toggleActive
    /\ menuActive

\* The last handler invocation was a click on a nav link.
NavLinkClicked == last.op = "click" /\ anchors[last.anchor].navLink

\* C5: when both nav-toggle and nav-menu exist, a click on any nav link
\* leaves neither of them with the class 'active', whatever the state before
\* the click was.
C5_NavLinkClosesMenu ==
    (MenuGuard /\ NavLinkClicked) => (~toggleActive /\ ~menuActive)

\* C5's case: a nav link was clicked on a page that has both elements.
C5_Witness ==
    /\ MenuGuard
    /\ NavLinkClicked
    /\ ~toggleActive
    /\ ~menuActive
    /\ charIndex > 0

\* C6: with IntersectionObserver available, a fade-in element has 'visible'
\* exactly when the observer has reported it as intersecting, which is when
\* it was unobserved: a callback makes visible the targets of its
\* intersecting entries and no other element, unobserves exactly those, no
\* other handler adds the class, no handler removes it, and an element once
\* unobserved is never observed (so never reported) again.
C6_VisibleOnceIntersecting ==
    [][/\ \A e \in fadeElements :
             /\ Present("IntersectionObserver") =>
                   /\ visible'[e] <=> (loaded' /\ e \notin observed')
                   /\ (~visible[e] /\ visible'[e]) => last'.op = "observer"
             /\ visible[e] => visible'[e]
             /\ (loaded /\ e \notin observed) => e \notin observed'
       /\ last'.op = "observer" =>
             \A t \in (SUBSET observed) \ {{}} : \A entries \in [t -> BOOLEAN] :
                 (observed' = fadeObserved(entries, observed)) =>
                     \A e \in fadeElements :
                         visible'[e] <=> (visible[e] \/ (e \in t /\ entries[e]))]_vars

\* C6's case: the observer reported one element as intersecting and the
\* other as not: the first is visible and unobserved, the second neither.
C6_Witness ==
    /\ Present("IntersectionObserver")
    /\ last.op = "observer"
    /\ \E e \in fadeElements : visible[e] /\ e \notin observed
    /\ \E e \in fadeElements : ~visible[e] /\ e \in observed

TypingDone ==
    /\ charIndex = Len(nameToType)
    /\ typedText = nameToType
    /\ ~timerPending

\* C8: when the typed-name element exists and every timer that is set fires,
\* the typewriter terminates, however clicks, scroll events, frames and
\* observer callbacks interleave with the timer firings: the page loaded, it
\* eventually is done and stays so.
C8_TypingTerminates ==
    (loaded /\ Present("typed-name")) ~> [](TypingDone)

\* C8's case: the typewriter is done after clicks, scroll events and
\* observer callbacks came in between the timer firings.
C8_Witness ==
    /\ Present("typed-name")
    /\ TypingDone
    /\ scrollTimeout = MaxRaf
    /\ \A e \in fadeElements : visible[e]
    /\ last.op = "click"

\* The last handler invocation was a click on a same-page anchor.
SamePageAnchorClicked == last.op = "click" /\ last.anchor \in smoothScrollLinks

\* C9, as stated: a click on a same-page anchor prevents the default
\* navigation and scrolls to the target element named by the href.
C9_AlwaysPreventsAndScrolls ==
    SamePageAnchorClicked => (last.prevented /\ last.scrolledTo # "")

\* C9, amended: a click on a same-page anchor whose href is exactly '#'
\* neither prevents the default navigation nor scrolls; with any other href
\* it prevents the default navigation, and it scrolls to the element the
\* href names when the page has one and nowhere when it has none.
C9_ThreeCases ==
    SamePageAnchorClicked =>
        LET href == anchors[last.anchor].href
        IN  IF href = <<"#">>
            THEN ~last.prevented /\ last.scrolledTo = ""
            ELSE /\ last.prevented
                 /\ href[2] \in ElementIds => last.scrolledTo = href[2]
                 /\ href[2] \notin ElementIds => last.scrolledTo = ""

\* C9's case: a click on an anchor whose href names no element of the page
\* prevented the default navigation and scrolled nowhere.
C9_Witness ==
    /\ SamePageAnchorClicked
    /\ anchors[last.anchor].href # <<"#">>
    /\ anchors[last.anchor].href[2] \notin ElementIds
    /\ last.prevented
    /\ last.scrolledTo = ""

\* C10: the menu handlers (toggle click, nav-link click) leave the 'active'
\* class of every nav link, the 'visible' classes and charIndex unchanged;
\* a frame's runs of highlightNavLink leave the 'active' class of nav-toggle
\* and nav-menu, the 'visible' classes and charIndex unchanged; the observer
\* callback changes no 'active' class and neither charIndex nor the typed
\* text; typeCharacter changes no 'active' and no 'visible' class.
C10_BehavioursDoNotInteract ==
    [][/\ last'.op \in {"toggle", "click"} =>
             /\ linkActive' = linkActive
             /\ visible' = visible
             /\ charIndex' = charIndex
             /\ typedText' = typedText
       /\ last'.op = "frame" =>
             /\ toggleActive' = toggleActive
             /\ menuActive' = menuActive
             /\ visible' = visible
             /\ charIndex' = charIndex
             /\ typedText' = typedText
       /\ last'.op = "observer" =>
             /\ toggleActive' = toggleActive
             /\ menuActive' = menuActive
             /\ linkActive' = linkActive
             /\ charIndex' = charIndex
             /\ typedText' = typedText
       /\ last'.op = "timer" =>
             /\ toggleActive' = toggleActive
             /\ menuActive' = menuActive
             /\ linkActive' = linkActive
             /\ visible' = visible]_vars

\* C10's case: a nav link was clicked while another link was the active
\* one, an element was visible and the typewriter was half way.
C10_Witness ==
    /\ NavLinkClicked
    /\ MenuGuard
    /\ ActiveLinks # {}
    /\ last.anchor \notin ActiveLinks
    /\ \E e \in fadeElements : visible[e]
    /\ charIndex > 0
    /\ charIndex < Len(nameToType)

\* C11: when the navbar element exists, after every scroll event (and until
\* the next one) the navbar background is the more opaque value, alpha
\* 0.98, exactly when window.scrollY > 50, and the less opaque value, alpha
\* 0.95, otherwise, also at scrollY = 50; before the first scroll event the
\* script has not set the background, whatever the scroll position at load.
C11_NavbarBackground ==
    Present("navbar") =>
        /\ scrollTimeout = 0 => navbarBg = "unset"
        /\ scrollTimeout # 0 =>
              /\ scrollY > 50 => navbarBg = "rgba(13, 13, 13, 0.98)"
              /\ scrollY <= 50 => navbarBg = "rgba(13, 13, 13, 0.95)"
        /\ last.op = "scroll" => scrollTimeout # 0

\* C11's case: a second scroll event, to scrollY = 50, has set the less
\* opaque background.
C11_Witness ==
    /\ Present("navbar")
    /\ last.op = "scroll"
    /\ scrollTimeout = 2
    /\ scrollY = 50
    /\ navbarBg = "rgba(13, 13, 13, 0.95)"

\* C12: at most one requestAnimationFrame callback for highlightNavLink is
\* pending in every state, and it is the one scrollTimeout holds; a scroll
\* event leaves exactly one callback pending, a new one, whether the one
\* before it was still pending (it is cancelled) or had already run
\* (scrollTimeout held a stale id); and, if frames keep firing, whenever a
\* callback is pending a frame runs highlightNavLink once, after the last
\* scroll event before that frame, and leaves none pending.
C12_OnePendingCallback ==
    /\ [](/\ Cardinality(rafPending) <= 1
          /\ rafPending \subseteq {scrollTimeout} \ {0})
    /\ [][last'.op = "scroll" =>
             /\ rafPending' = {scrollTimeout'}
             /\ scrollTimeout' \notin rafPending
             /\ scrollTimeout' # scrollTimeout]_vars
    /\ (rafPending # {}) ~>
          (last.op = "frame" /\ last.ran = 1 /\ rafPending = {})

\* C12's case: a scroll event that came after the callback of the one
\* before it had run (no scroll event since the last frame but this one)
\* has scheduled one new callback.
C12_Witness ==
    /\ last.op = "scroll"
    /\ scrollTimeout = 2
    /\ navbarRuns = 1
    /\ rafPending = {2}

\* C13: once nav-toggle and nav-menu have the same membership of 'active'
\* they keep the same membership through every handler invocation; so when
\* they start with the same membership, nav-toggle has 'active' if and only
\* if nav-menu has it, after any interleaving of toggle clicks and nav-link
\* clicks.
C13_ToggleAndMenuAgree ==
    [][(toggleActive <=> menuActive) => (toggleActive' <=> menuActive')]_vars

\* C13's case: toggle clicks and a scroll event later, on a page that has
\* both elements, a toggle click has closed both.
C13_Witness ==
    /\ MenuGuard
    /\ last.op = "toggle"
    /\ ~toggleActive
    /\ ~menuActive
    /\ scrollTimeout > 0

\* C14: a run of highlightNavLink in which window.scrollY + 100 lies within
\* no section leaves the 'active' class of every nav link as it was; after
\* a run in which it lies within at least one section at most one nav link
\* has 'active': the link of the last section in document order that holds
\* the position, when that section has a link, and no link when it has none.
C14_HighlightRun ==
    [][(last'.op \in {"load", "frame"} /\ last'.ran >= 1) =>
          IF SectionsAt(scrollY') = {}
          THEN linkActive' = linkActive
          ELSE LET id == sections[LastSectionAt(scrollY')].id
                   links == {l \in navLinksForHighlight :
                                anchors[l].href = <<"#", id>>}
               IN  /\ Cardinality(ActiveLinks') <= 1
                   /\ ActiveLinks' \subseteq links
                   /\ links # {} => ActiveLinks' # {}]_vars

\* C14's case: a run from an animation frame at a position that no section
\* holds has left the link highlighted before still highlighted.
C14_Witness ==
    /\ last.op = "frame"
    /\ last.ran = 1
    /\ SectionsAt(scrollY) = {}
    /\ Cardinality(ActiveLinks) = 1

\* C15: at most one typewriter timer is outstanding in every state; and
\* when the typed-name element is absent, the first timer firing appends
\* nothing, leaves charIndex at 0 and sets no timer, and from a state
\* without a timer after the load no step sets one.
C15_TimerChainStops ==
    /\ [](timers <= 1)
    /\ [][~Present("typed-name") =>
             /\ last'.op = "timer" =>
                   /\ charIndex' = 0
                   /\ typedText' = << >>
                   /\ timers' = 0
             /\ (loaded /\ timers = 0) => timers' = 0]_vars

\* C15's case: on a page without the typed-name element the timer set at
\* load has fired.
C15_Witness ==
    /\ ~Present("typed-name")
    /\ last.op = "timer"
    /\ timers = 0
    /\ charIndex = 0
    /\ typedText = << >>

\* C16: when IntersectionObserver is not available, every fade-in element
\* has 'visible' from the moment the load handler has finished, before any
\* scroll or observer event, and in every later state.
C16_FallbackShowsAll ==
    (~Present("IntersectionObserver") /\ loaded) =>
        /\ \A e \in fadeElements : visible[e]
        /\ observed = {}

\* C16's case: the load handler has just finished on a page without
\* IntersectionObserver and every fade-in element is visible.
C16_Witness ==
    /\ ~Present("IntersectionObserver")
    /\ last.op = "load"
    /\ \A e \in fadeElements : visible[e]

====
